---- MODULE Spec2Model ----
(***************************************************************************)
(* The query-result panel of ui/components/Result.js.                      *)
(*                                                                         *)
(* The panel's state is the state of the useAxios hook it calls (data,     *)
(* loading, error), the requests that hook has issued, the hook's response *)
(* cache and the clipboard the copy button writes.  What the panel shows   *)
(* (cleanOutput, errorKw, errorMsg, the alert's status, the two render     *)
(* branches) is derived from that state, as in the component's body.       *)
(*                                                                         *)
(* Strings are sequences of one-character strings, so that split, join and *)
(* the regular-expression replace and split are computed character by      *)
(* character.  An optional JavaScript value is None (undefined / null) or  *)
(* Some(v).                                                                *)
(***************************************************************************)
EXTENDS Integers, Sequences, FiniteSets, TLC

VARIABLES
    props,      \* queryLocation, queryType, queryVrf, queryTarget, timeout
    mounted,    \* FALSE at the first render, TRUE once the mount effect ran
    data,       \* hook state: response body of the last successful request
    loading,    \* hook state: a request is in progress
    error,      \* hook state: error of the last failed request
    requests,   \* every request issued: its axios config and its status
    retries,    \* number of invocations of refetch
    cache,      \* the hook's response cache entry for this panel's config
    clipboard,  \* what the copy button last wrote
    fn          \* argument and result of a function applied on its own

vars == <<props, mounted, data, loading, error, requests, retries, cache,
          clipboard, fn>>

panelVars == <<props, mounted, data, loading, error, requests, retries, cache,
               clipboard>>

\* ------------------------------------------------------------------ bounds

MaxRequests == 3    \* requests issued by one panel
MaxOutLen   == 4    \* characters of a response output given to cleanOutput
MaxMsgLen   == 3    \* characters of a message given to FormattedError
MaxKeywords == 2    \* keywords in a list given to FormattedError
MaxKwLen    == 2    \* characters of one keyword

\* ----------------------------------------------------------------- strings

None == <<>>
Some(v) == <<v>>

BS == "\\"
NL == "\n"

RECURSIVE StringsUpTo(_, _)
StringsUpTo(alphabet, n) ==
    IF n = 0 THEN {<<>>}
    ELSE LET shorter == StringsUpTo(alphabet, n - 1)
         IN  shorter \cup {Append(s, c) : s \in shorter, c \in alphabet}

RECURSIVE Concat(_)
Concat(parts) ==
    IF parts = <<>> THEN <<>> ELSE Head(parts) \o Concat(Tail(parts))

\* String.prototype.split with a non-empty string separator: p is where the
\* current piece starts, q is the position being scanned.
RECURSIVE SplitFrom(_, _, _, _)
SplitFrom(s, sep, p, q) ==
    IF q + Len(sep) - 1 > Len(s)
    THEN <<SubSeq(s, p, Len(s))>>
    ELSE IF SubSeq(s, q, q + Len(sep) - 1) = sep
         THEN <<SubSeq(s, p, q - 1)>>
              \o SplitFrom(s, sep, q + Len(sep), q + Len(sep))
         ELSE SplitFrom(s, sep, p, q + 1)

split(s, sep) == SplitFrom(s, sep, 1, 1)

\* Array.prototype.join
RECURSIVE join(_, _)
join(parts, sep) ==
    IF Len(parts) = 0 THEN <<>>
    ELSE IF Len(parts) = 1 THEN parts[1]
    ELSE parts[1] \o sep \o join(Tail(parts), sep)

\* s.replace(/\n\n/g, ""): every match, left to right, without overlap.
RECURSIVE ReplaceNLNLFrom(_, _)
ReplaceNLNLFrom(s, i) ==
    IF i > Len(s) THEN <<>>
    ELSE IF i < Len(s) /\ s[i] = NL /\ s[i + 1] = NL
         THEN ReplaceNLNLFrom(s, i + 2)
         ELSE <<s[i]>> \o ReplaceNLNLFrom(s, i + 1)

\* data.output.split("\\n").join("\n").replace(/\n\n/g, "")
cleanOutputOf(output) ==
    ReplaceNLNLFrom(join(split(output, <<BS, "n">>), <<NL>>), 1)

\* ------------------------------------------------------------ FormattedError

\* The "i" flag of the pattern: letters compare by their lower-case form.
toLower(c) == IF c = "A" THEN "a" ELSE IF c = "B" THEN "b" ELSE c

\* One pattern character against one message character.  Keywords are joined
\* into the pattern unescaped, so "." in a keyword is the wildcard.
MatchCharCaseSensitive(p, c) == (p = "." /\ c # NL) \/ p = c

MatchChar(p, c) == (p = "." /\ c # NL) \/ toLower(p) = toLower(c)

MatchAt(kw, message, q) ==
    /\ q + Len(kw) - 1 <= Len(message)
    /\ \A i \in 1..Len(kw) : MatchChar(kw[i], message[q + i - 1])

\* new RegExp(`(${keywords.join("|")})`, "gi") tried at position q: the length
\* of the match of the first alternative that matches there, -1 if none does.
\* With no keyword the pattern is "()", which matches the empty string.
ExecAt(keywords, message, q) ==
    IF keywords = <<>> THEN 0
    ELSE LET ks == {k \in 1..Len(keywords) : MatchAt(keywords[k], message, q)}
         IN  IF ks = {} THEN -1
             ELSE Len(keywords[CHOOSE k \in ks : \A j \in ks : k <= j])

Plain(text)  == [strong |-> FALSE, text |-> text]
Strong(text) == [strong |-> TRUE, text |-> text]

\* str.split(pattern) with one capture group, as react-string-replace calls
\* it, and its callback applied to the captured pieces: p is where the
\* current plain piece starts, q the position the pattern is tried at.  An
\* empty match at p does not split.
RECURSIVE RegexSplitFrom(_, _, _, _)
RegexSplitFrom(keywords, message, p, q) ==
    IF q > Len(message)
    THEN <<Plain(SubSeq(message, p, Len(message)))>>
    ELSE LET m == ExecAt(keywords, message, q)
         IN  IF m = -1 \/ q + m = p
             THEN RegexSplitFrom(keywords, message, p, q + 1)
             ELSE <<Plain(SubSeq(message, p, q - 1)),
                    Strong(SubSeq(message, q, q + m - 1))>>
                  \o RegexSplitFrom(keywords, message, q + m, q + m)

strReplace(message, keywords) ==
    IF message = <<>>
    THEN IF ExecAt(keywords, message, 1) = 0 THEN <<>> ELSE <<Plain(<<>>)>>
    ELSE RegexSplitFrom(keywords, message, 1, 1)

FormattedError(keywords, message) == strReplace(message, keywords)

\* ------------------------------------------------------------- the panel

\* The props of one panel.
Props ==
    [queryLocation : {"router1"}, queryType : {"bgp_route"},
     queryVrf : {"default"}, queryTarget : {"192.0.2.0/24", "2001:db8::/32"},
     timeout : {"10s", "120s"}]

\* The first argument of useAxios.
Config(pr) ==
    [url |-> "/api/query", method |-> "post",
     data |-> [query_location |-> pr.queryLocation,
               query_type |-> pr.queryType,
               query_vrf |-> pr.queryVrf,
               query_target |-> pr.queryTarget],
     timeout |-> pr.timeout]

\* The same config with its timeout lost.
ConfigNoTimeout(pr) == [Config(pr) EXCEPT !.timeout = "0"]

\* Response bodies of a successful query: {output}.
Outputs == {<<"a">>, <<"a", BS, "n", BS, "n", "b">>}

\* Errors the request promise rejects with.  An axios error has a message and,
\* when the server answered, a response whose data is the body
\* {output, keywords, alert}; any of them may be missing.
ErrorBodies ==
    [output : {None, Some(<<>>), Some(<<"b", "a", "d">>)},
     keywords : {None, Some(<<<<"a">>>>)},
     alert : {None, Some(""), Some("warning")}]

ErrorResponses ==
    {None, Some([data |-> None])} \cup {Some([data |-> Some(b)]) : b \in ErrorBodies}

ErrorMessages == {<<>>, <<"n", "e", "t">>}

Errors == [message : ErrorMessages, response : ErrorResponses]

\* config.messages.general
general == <<"g", "e", "n">>

Idle == [called |-> "none"]

\* Requests that are neither settled nor aborted.
Outstanding == {r \in 1..Len(requests) : requests[r].status = "pending"}

\* The component's first render: the hook starts with loading (it is not
\* manual) and no data or error.  The cache is the module-level cache of the
\* hook: it holds a response when an earlier panel of the page made the same
\* query successfully.
InitPanel ==
    /\ props \in Props
    /\ mounted = FALSE
    /\ data = None
    /\ loading = TRUE
    /\ error = None
    /\ requests = <<>>
    /\ retries = 0
    /\ cache \in {None} \cup {Some([output |-> o, req |-> 0]) : o \in Outputs}
    /\ clipboard = None

Init == InitPanel /\ fn = Idle

\* REQUEST_START of the hook and the axios call: a started request clears the
\* error and keeps the data.
StartRequest(config, kept) ==
    /\ loading' = TRUE
    /\ error' = None
    /\ requests' = Append(kept, [config |-> config, status |-> "pending"])
    /\ UNCHANGED data

\* refetch cancels the outstanding request before it issues the next one.
CancelOutstanding ==
    [r \in 1..Len(requests) |->
        IF requests[r].status = "pending"
        THEN [requests[r] EXCEPT !.status = "aborted"]
        ELSE requests[r]]

\* The hook's effect after the first render (useCache is true by default): a
\* cached response ends the request at once, otherwise the POST is issued.
Mount ==
    /\ ~mounted
    /\ mounted' = TRUE
    /\ IF cache # None
       THEN /\ loading' = FALSE
            /\ data' = cache
            /\ UNCHANGED <<error, requests>>
       ELSE StartRequest(Config(props), requests)
    /\ UNCHANGED <<props, retries, cache, clipboard, fn>>

\* refetch that leaves the outstanding request running.
RefetchNoCancel ==
    /\ mounted
    /\ Len(requests) < MaxRequests
    /\ retries' = retries + 1
    /\ StartRequest(Config(props), requests)
    /\ UNCHANGED <<props, mounted, cache, clipboard, fn>>

\* refetch that issues the request without the caller's timeout.
RefetchNoTimeout ==
    /\ mounted
    /\ Len(requests) < MaxRequests
    /\ retries' = retries + 1
    /\ StartRequest(ConfigNoTimeout(props), CancelOutstanding)
    /\ UNCHANGED <<props, mounted, cache, clipboard, fn>>

\* RequeryButton requery={refetch}: the button gets no disabled prop, so
\* refetch can be invoked in any state of the mounted panel.  It bypasses the
\* cache and issues the request with the config of the render.
Refetch ==
    /\ mounted
    /\ Len(requests) < MaxRequests
    /\ retries' = retries + 1
    /\ StartRequest(Config(props), CancelOutstanding)
    /\ UNCHANGED <<props, mounted, cache, clipboard, fn>>

\* The outstanding request r is answered: REQUEST_END with the response.
Resolve ==
    \E r \in Outstanding, o \in Outputs :
        /\ requests' = [requests EXCEPT ![r].status = "resolved"]
        /\ loading' = FALSE
        /\ data' = Some([output |-> o, req |-> r])
        /\ cache' = Some([output |-> o, req |-> r])
        /\ UNCHANGED <<props, mounted, error, retries, clipboard, fn>>

\* A failure that issues the request again by itself.
RejectAutoRetry ==
    \E r \in Outstanding, e \in Errors :
        /\ Len(requests) < MaxRequests
        /\ StartRequest(Config(props),
                        [requests EXCEPT ![r].status = "rejected"])
        /\ UNCHANGED <<props, mounted, retries, cache, clipboard, fn>>

\* The outstanding request r fails (server error, network failure, timeout):
\* REQUEST_END with the error, which keeps the data.
Reject ==
    \E r \in Outstanding, e \in Errors :
        /\ requests' = [requests EXCEPT ![r].status = "rejected"]
        /\ loading' = FALSE
        /\ error' = Some([message |-> e.message, response |-> e.response,
                          req |-> r])
        /\ UNCHANGED <<props, mounted, data, retries, cache, clipboard, fn>>

\* ------------------------------------------------------------ the render

\* const cleanOutput = data && data.output.split(...)...
cleanOutput == IF data = None THEN None ELSE Some(cleanOutputOf(data[1].output))

\* error.response?.data
ResponseData(e) == IF e.response = None THEN None ELSE e.response[1].data

\* error.response?.data?.keywords, ?.output, ?.alert
ResponseField(e, f) ==
    IF ResponseData(e) = None THEN None ELSE ResponseData(e)[1][f]

\* (error && error.response?.data?.keywords) || []
errorKw ==
    IF error # None /\ ResponseField(error[1], "keywords") # None
    THEN ResponseField(error[1], "keywords")[1]
    ELSE <<>>

\* errorMsg without the error.message alternative.
errorMsgNoMessage ==
    IF /\ error # None
       /\ ResponseField(error[1], "output") # None
       /\ ResponseField(error[1], "output")[1] # <<>>
    THEN ResponseField(error[1], "output")[1]
    ELSE general

\* (error && error.response?.data?.output) || (error && error.message)
\*     || config.messages.general
errorMsg ==
    IF /\ error # None
       /\ ResponseField(error[1], "output") # None
       /\ ResponseField(error[1], "output")[1] # <<>>
    THEN ResponseField(error[1], "output")[1]
    ELSE IF error # None /\ error[1].message # <<>>
         THEN error[1].message
         ELSE general

\* The alert's status without the response's alert.
alertStatusAlwaysError == "error"

\* status={error.response?.data?.alert || "error"}, rendered when error is set
alertStatus ==
    IF /\ error # None
       /\ ResponseField(error[1], "alert") # None
       /\ ResponseField(error[1], "alert")[1] # ""
    THEN ResponseField(error[1], "alert")[1]
    ELSE "error"

\* {data && <Box>{cleanOutput}</Box>}
OutputShown == data # None

\* {error && <Alert><FormattedError .../></Alert>}
AlertShown == error # None

\* The text of the alert: the pieces FormattedError renders, in order.
AlertText ==
    Concat([i \in 1..Len(FormattedError(errorKw, errorMsg)) |->
               FormattedError(errorKw, errorMsg)[i].text])

\* CopyButton copyValue={cleanOutput}: the button gets no disabled prop; a
\* click writes the value of the render to the clipboard.
Copy ==
    /\ mounted
    /\ clipboard' = cleanOutput
    /\ UNCHANGED <<props, mounted, data, loading, error, requests, retries,
                   cache, fn>>

Next == Mount \/ Refetch \/ Resolve \/ Reject \/ Copy

Spec == Init /\ [][Next]_vars

\* The panel of a query that was not made before in the page: the hook's
\* cache holds nothing for it, and the mount issues the request.
InitFresh == Init /\ cache = None

SpecFresh == InitFresh /\ [][Next]_vars

\* ------------------------------------------- the functions on their own

\* Response outputs given to cleanOutput: every string over a letter, the
\* backslash, "n" and the newline, and the output a\nb\n\nc written with
\* literal backslash-n sequences.
ExampleOutput == <<"a", BS, "n", "b", BS, "n", BS, "n", "c">>

OutputStrings == StringsUpTo({"a", BS, "n", NL}, MaxOutLen) \cup {ExampleOutput}

\* Keyword lists and messages given to FormattedError.
ExampleKeywords == <<<<"t", "i", "m", "e", "o", "u", "t">>>>

ExampleMessage ==
    <<"R", "e", "q", "u", "e", "s", "t", " ", "t", "i", "m", "e", "o", "u",
      "t", " ", "o", "c", "c", "u", "r", "r", "e", "d">>

Keywords == StringsUpTo({"A", "."}, MaxKwLen) \ {<<>>}

RECURSIVE ListsUpTo(_, _)
ListsUpTo(S, n) ==
    IF n = 0 THEN {<<>>}
    ELSE LET shorter == ListsUpTo(S, n - 1)
         IN  shorter \cup {Append(l, x) : l \in shorter, x \in S}

KeywordLists == ListsUpTo(Keywords, MaxKeywords)

Messages == StringsUpTo({"a", "A", "b"}, MaxMsgLen)

\* One panel at its first render, for the specifications that apply a
\* function of the component to an argument.
StaticPanel ==
    /\ InitPanel
    /\ props.queryTarget = "192.0.2.0/24"
    /\ props.timeout = "10s"
    /\ cache = None

InitClean ==
    /\ StaticPanel
    /\ fn \in {[called |-> "none", output |-> o] : o \in OutputStrings}

ApplyCleanOutput ==
    /\ fn.called = "none"
    /\ fn' = [called |-> "cleanOutput", output |-> fn.output,
              out |-> cleanOutputOf(fn.output)]
    /\ UNCHANGED panelVars

NextClean == ApplyCleanOutput

SpecClean == InitClean /\ [][NextClean]_vars

InitFmt ==
    /\ StaticPanel
    /\ fn \in {[called |-> "none", keywords |-> k, message |-> m] :
                  k \in KeywordLists, m \in Messages}
              \cup {[called |-> "none", keywords |-> ExampleKeywords,
                     message |-> ExampleMessage]}

ApplyFormattedError ==
    /\ fn.called = "none"
    /\ fn' = [called |-> "FormattedError", keywords |-> fn.keywords,
              message |-> fn.message,
              out |-> FormattedError(fn.keywords, fn.message)]
    /\ UNCHANGED panelVars

NextFmt == ApplyFormattedError

SpecFmt == InitFmt /\ [][NextFmt]_vars

\* ------------------------------------------------------------- the claims

\* C1: in every reachable state exactly one of the three visual states holds:
\* loading, success (output block shown) or error (alert shown); the block and
\* the alert are never shown together, and neither is shown while loading.
C1_ExactlyOneVisualState ==
    \/ loading /\ ~OutputShown /\ ~AlertShown
    \/ ~loading /\ OutputShown /\ ~AlertShown
    \/ ~loading /\ ~OutputShown /\ AlertShown

\* Literal backslash-n sequences replaced by newlines, left to right.
RECURSIVE UnescapeNewlines(_)
UnescapeNewlines(s) ==
    IF s = <<>> THEN <<>>
    ELSE IF Len(s) >= 2 /\ s[1] = BS /\ s[2] = "n"
         THEN <<NL>> \o UnescapeNewlines(SubSeq(s, 3, Len(s)))
         ELSE <<s[1]>> \o UnescapeNewlines(Tail(s))

\* Every run of newlines reduced to one newline.
RECURSIVE CollapseNewlines(_)
CollapseNewlines(s) ==
    IF s = <<>> THEN <<>>
    ELSE IF Len(s) >= 2 /\ s[1] = NL /\ s[2] = NL
         THEN CollapseNewlines(Tail(s))
         ELSE <<s[1]>> \o CollapseNewlines(Tail(s))

\* C2: the normalized output is the output with every literal backslash-n
\* replaced by a newline and blank lines then removed, the lines staying
\* separated by a single newline (a\nb\n\nc gives the lines a, b, c).
C2_NormalizedOutput ==
    fn.called = "cleanOutput"
        => fn.out = CollapseNewlines(UnescapeNewlines(fn.output))

\* The failed request carries response.data.output, and it is not empty.
HasErrorOutput ==
    /\ error[1].response # None
    /\ error[1].response[1].data # None
    /\ error[1].response[1].data[1].output # None
    /\ error[1].response[1].data[1].output[1] # <<>>

\* C3 as claimed: whenever the failed request carries no response.data.output,
\* the alert shows the generic configured message.
C3_GenericMessageShown ==
    (AlertShown /\ ~HasErrorOutput) => AlertText = general

\* C3 as amended: whenever the failed request carries no (or an empty)
\* response.data.output, the alert shows the error's own message when that is
\* not empty, and the generic configured message otherwise.
C3_FallbackMessageShown ==
    (AlertShown /\ ~HasErrorOutput)
        => AlertText = IF error[1].message # <<>> THEN error[1].message
                       ELSE general

\* A network failure with a message of its own is shown.
C3_Witness ==
    /\ AlertShown
    /\ ~loading
    /\ error[1].response = None
    /\ error[1].message # <<>>
    /\ AlertText = error[1].message

\* C4: while a request is loading the retry and the copy actions are
\* disabled: no retry invocation and no copy takes effect from the moment the
\* request is issued until it settles.
C4_DisabledWhileLoading ==
    [][(mounted /\ loading /\ Outstanding # {})
          => (retries' = retries /\ clipboard' = clipboard)]_vars

\* The request the props call for.
ExpectedRequest ==
    [url |-> "/api/query", method |-> "post",
     data |-> [query_location |-> props.queryLocation,
               query_type |-> props.queryType,
               query_vrf |-> props.queryVrf,
               query_target |-> props.queryTarget],
     timeout |-> props.timeout]

C8_RetrySupersedes ==
    retries > 0
        => /\ loading => (~OutputShown /\ ~AlertShown)
           /\ ~loading
               => \/ /\ OutputShown /\ ~AlertShown
                     /\ data[1].req = Len(requests)
                  \/ /\ AlertShown /\ ~OutputShown
                     /\ error[1].req = Len(requests)

\* C9: a request is issued only by the mount and by an invocation of retry,
\* and a panel that settled with an error stays as it is until retry is
\* invoked.
C9_NoAutomaticRetry ==
    [][/\ (Len(requests') # Len(requests))
           => (retries' = retries + 1 \/ (~mounted /\ mounted'))
       /\ (~loading /\ error # None /\ retries' = retries)
           => (loading' = loading /\ error' = error /\ requests' = requests)]_vars

\* A request that failed without a response (network failure, timeout) and
\* was not retried.
C9_Witness ==
    /\ ~loading
    /\ error # None
    /\ error[1].response = None
    /\ requests[Len(requests)].status = "rejected"

\* The alert value of the structured error response is present and not empty.
HasAlert ==
    /\ error[1].response # None
    /\ error[1].response[1].data # None
    /\ error[1].response[1].data[1].alert # None
    /\ error[1].response[1].data[1].alert[1] # ""

\* C10: whenever the alert is shown its severity is the alert value of the
\* structured error response when that is present and not empty, and "error"
\* in every other case.
C10_AlertSeverity ==
    AlertShown
        => alertStatus = IF HasAlert THEN error[1].response[1].data[1].alert[1]
                         ELSE "error"

\* An alert shown with the severity the response gave.
C10_Witness ==
    /\ AlertShown
    /\ HasAlert
    /\ alertStatus = "warning"

\* Two characters that are the same letter in either case.
SameLetter(x, y) ==
    \/ x = y
    \/ {x, y} = {"a", "A"}
    \/ {x, y} = {"b", "B"}

\* The keyword occurs in the message at position i, in any case.
OccursAt(kw, message, i) ==
    /\ i + Len(kw) - 1 <= Len(message)
    /\ \A n \in 1..Len(kw) : SameLetter(kw[n], message[i + n - 1])

\* The text is a match of the keyword read as a pattern ("." is any
\* character), in any case.
IsMatchOf(kw, text) ==
    /\ Len(text) = Len(kw)
    /\ \A n \in 1..Len(kw) : kw[n] = "." \/ SameLetter(kw[n], text[n])

\* Some part of the text is a match of some keyword.
ContainsMatch(keywords, text) ==
    \E k \in 1..Len(keywords), i \in 1..Len(text), j \in 1..Len(text) :
        i <= j /\ IsMatchOf(keywords[k], SubSeq(text, i, j))

RECURSIVE TotalLen(_)
TotalLen(segments) ==
    IF segments = <<>> THEN 0
    ELSE Len(Head(segments).text) + TotalLen(Tail(segments))

\* Where segment j starts in the message.
StartOf(segments, j) == 1 + TotalLen(SubSeq(segments, 1, j - 1))

SegmentTexts(segments) == [j \in 1..Len(segments) |-> segments[j].text]

====
